---- MODULE Spec2Model ----
(***************************************************************************)
(* Model of package alex (zeroxsolutions/alex): option builders that       *)
(* accumulate field-setting closures, and the constructors NewRedisConfig, *)
(* NewMinioConfig and NewFileBucketConfig that fold the closures over a    *)
(* zero-valued options struct (builderutil.Build) and validate the result. *)
(*                                                                         *)
(* Pointers and the error interface are modelled as sets: {} is nil and    *)
(* {v} is a non-nil pointer to (or error with message) v.                  *)
(***************************************************************************)
EXTENDS Integers, Sequences, FiniteSets, TLC

\* ------------------------------------------------------------------ bounds
\* Builder-creating and setter calls of a cache or file-bucket run.
MaxCalls == 4
\* Setter calls of a storage run, which has one builder (its success path
\* alone needs the four required setters).
MaxMinioOpts == 5
\* Length of the variadic argument list of a constructor call.
MaxArgs == 2

\* ------------------------------------------------------- input value sets
AddrValues == {"", "localhost:6379"}
PasswordValues == {"secret"}
DBValues == {-1, 0, 1}
EndpointValues == {"https://x"}
AccessKeyValues == {"a"}
SecretKeyValues == {"b"}
UseSSLValues == {TRUE}
BucketNameValues == {"bkt"}
RegionValues == {"region"}
BasePathValues == {"", "/data"}
\* Errors signalled by closures a caller appends to the exported Opts field.
MutatorErrors == {"boom"}

Nil == {}
Ptr(v) == {v}
Deref(p) == CHOOSE v \in p : TRUE

\* ------------------------------------------------------------------ state
VARIABLES
    builders,   \* sequence of builder objects, in creation order
    calls,      \* per builder, the setter calls made on it, in call order
    ret,        \* what the most recent call returned
    trace,      \* instrumentation of the most recent constructor call
    prev        \* what the constructor returned the first time, when it has
                \* just been called again over the same setter calls

vars == <<builders, calls, ret, trace, prev>>

\* ---------------------------------------------------------- option structs
ZeroRedisConfigOptions == [Addr |-> "", Password |-> "", DB |-> 0]

ZeroMinioOption ==
    [Endpoint |-> "", AccessKey |-> "", SecretKey |-> "", UseSSL |-> FALSE,
     BucketName |-> "", Region |-> ""]

ZeroFileBucketOption == [BasePath |-> ""]

\* ------------------------------------------------------- builder objects
NewRedisConfigOptionsBuilder == [kind |-> "redis", Opts |-> <<>>]
NewMinioOption == [kind |-> "minio", Opts |-> <<>>]
\* NewFileBucketOption handing out a builder preset with a default path.
NewFileBucketOptionPreset ==
    [kind |-> "file", Opts |-> <<[fn |-> "SetBasePath", arg |-> "/data"]>>]

NewFileBucketOption == [kind |-> "file", Opts |-> <<>>]

\* A closure is the setter that made it and the argument it captured.
Closure(fn, arg) == [fn |-> fn, arg |-> arg]

\* The closure put in place of the accumulated ones.
ReplaceOpts(builder, f) == [builder EXCEPT !.Opts = <<f>>]

\* The closure put in front of the accumulated ones.
PrependOpt(builder, f) == [builder EXCEPT !.Opts = <<f>> \o @]

\* builder.Opts = append(builder.Opts, f)
AppendOpt(builder, f) == [builder EXCEPT !.Opts = Append(@, f)]

SetAddr(b, addr) == AppendOpt(b, Closure("SetAddr", addr))
SetPassword(b, password) == AppendOpt(b, Closure("SetPassword", password))
SetDB(b, db) == AppendOpt(b, Closure("SetDB", db))
SetEndpoint(b, endpoint) == AppendOpt(b, Closure("SetEndpoint", endpoint))
SetAccessKey(b, accessKey) == AppendOpt(b, Closure("SetAccessKey", accessKey))
SetSecretKey(b, secretKey) == AppendOpt(b, Closure("SetSecretKey", secretKey))
SetUseSSL(b, useSSL) == AppendOpt(b, Closure("SetUseSSL", useSSL))
SetBucketName(b, bucketName) == AppendOpt(b, Closure("SetBucketName", bucketName))
SetRegion(b, region) == AppendOpt(b, Closure("SetRegion", region))
SetBasePath(b, basePath) == AppendOpt(b, Closure("SetBasePath", basePath))
\* A caller appending its own closure, one that returns errors.New(msg).
AppendFailing(b, msg) == AppendOpt(b, Closure("fail", msg))

\* The closure bodies: the options after the call and the error returned.
Invoke(f, o) ==
    CASE f.fn = "SetAddr" -> [o |-> [o EXCEPT !.Addr = f.arg], err |-> Nil]
      [] f.fn = "SetPassword" -> [o |-> [o EXCEPT !.Password = f.arg], err |-> Nil]
      [] f.fn = "SetDB" -> [o |-> [o EXCEPT !.DB = f.arg], err |-> Nil]
      [] f.fn = "SetEndpoint" -> [o |-> [o EXCEPT !.Endpoint = f.arg], err |-> Nil]
      [] f.fn = "SetAccessKey" -> [o |-> [o EXCEPT !.AccessKey = f.arg], err |-> Nil]
      [] f.fn = "SetSecretKey" -> [o |-> [o EXCEPT !.SecretKey = f.arg], err |-> Nil]
      [] f.fn = "SetUseSSL" -> [o |-> [o EXCEPT !.UseSSL = f.arg], err |-> Nil]
      [] f.fn = "SetBucketName" -> [o |-> [o EXCEPT !.BucketName = f.arg], err |-> Nil]
      [] f.fn = "SetRegion" -> [o |-> [o EXCEPT !.Region = f.arg], err |-> Nil]
      [] f.fn = "SetBasePath" -> [o |-> [o EXCEPT !.BasePath = f.arg], err |-> Nil]
      [] f.fn = "fail" -> [o |-> o, err |-> Ptr(f.arg)]

\* List leaving out the closure appended last.
ListButLast(builder) ==
    [list |-> IF builder.Opts = <<>> THEN <<>>
              ELSE SubSeq(builder.Opts, 1, Len(builder.Opts) - 1),
     builder |-> builder]

\* List handing over the closures and emptying the builder.
ListDrain(builder) ==
    [list |-> builder.Opts, builder |-> [builder EXCEPT !.Opts = <<>>]]

\* List returns builder.Opts; the receiver is returned with it since List
\* has a pointer receiver.
List(builder) == [list |-> builder.Opts, builder |-> builder]

\* --------------------------------------------------------- builderutil.Build
\* Applies fns[i..] to o for the argument at position k of the call.
RECURSIVE ApplyList(_, _, _, _, _)
ApplyList(fns, i, o, k, invoked) ==
    IF i > Len(fns)
    THEN [o |-> o, err |-> Nil, invoked |-> invoked]
    ELSE LET r == Invoke(fns[i], o)
             inv == Append(invoked, <<k, i>>)
         IN IF r.err # Nil
            THEN [o |-> r.o, err |-> r.err, invoked |-> inv]
            ELSE ApplyList(fns, i + 1, r.o, k, inv)

RECURSIVE BuildFrom(_, _, _, _, _)
BuildFrom(opts, k, bs, o, invoked) ==
    IF k > Len(opts)
    THEN [options |-> Ptr(o), err |-> Nil, builders |-> bs, invoked |-> invoked]
    ELSE LET l == List(bs[opts[k]])
             bs1 == [bs EXCEPT ![opts[k]] = l.builder]
             r == ApplyList(l.list, 1, o, k, invoked)
         IN IF r.err # Nil
            THEN [options |-> Nil, err |-> r.err, builders |-> bs1,
                  invoked |-> r.invoked]
            ELSE BuildFrom(opts, k + 1, bs1, r.o, r.invoked)

\* Build starts from a zero-valued options struct (zero) and applies every
\* closure of every supplied builder, in order, stopping at the first error.
Build(zero, bs, opts) == BuildFrom(opts, 1, bs, zero, <<>>)

\* ------------------------------------------------------------ constructors
\* Each returns the config pointer and the error, and with them what the
\* call did: the options Build returned, the closures it invoked, the
\* builders after the call and the validation rules evaluated, in order.
Outcome(cfg, err, rules, r) ==
    [cfg |-> cfg, err |-> err, rules |-> rules, options |-> r.options,
     invoked |-> r.invoked, builders |-> r.builders]

\* NewRedisConfig without its range check on DB.
NewRedisConfigNoRange(bs, opts) ==
    LET r == Build(ZeroRedisConfigOptions, bs, opts)
        options == Deref(r.options)
    IN IF r.err # Nil
       THEN Outcome(Nil, r.err, <<>>, r)
       ELSE IF r.options = Nil
       THEN Outcome(Nil, Ptr("redis config options is nil"), <<"nil">>, r)
       ELSE IF options.Addr = ""
       THEN Outcome(Nil, Ptr("redis address is required"), <<"nil", "Addr">>, r)
       ELSE Outcome(Ptr([Addr |-> options.Addr, Password |-> options.Password,
                         DB |-> options.DB]),
                    Nil, <<"nil", "Addr">>, r)

\* NewRedisConfig returning an error of its own when Build fails.
NewRedisConfigWrapErr(bs, opts) ==
    LET r == Build(ZeroRedisConfigOptions, bs, opts)
        options == Deref(r.options)
    IN IF r.err # Nil
       THEN Outcome(Nil, Ptr("redis config build failed"), <<>>, r)
       ELSE IF r.options = Nil
       THEN Outcome(Nil, Ptr("redis config options is nil"), <<"nil">>, r)
       ELSE IF options.Addr = ""
       THEN Outcome(Nil, Ptr("redis address is required"), <<"nil", "Addr">>, r)
       ELSE IF options.DB < 0
       THEN Outcome(Nil, Ptr("redis database must be greater than 0"),
                    <<"nil", "Addr", "DB">>, r)
       ELSE Outcome(Ptr([Addr |-> options.Addr, Password |-> options.Password,
                         DB |-> options.DB]),
                    Nil, <<"nil", "Addr", "DB">>, r)

\* NewRedisConfig rejecting DB = 0, as its error message words the rule.
NewRedisConfigStrictDB(bs, opts) ==
    LET r == Build(ZeroRedisConfigOptions, bs, opts)
        options == Deref(r.options)
    IN IF r.err # Nil
       THEN Outcome(Nil, r.err, <<>>, r)
       ELSE IF r.options = Nil
       THEN Outcome(Nil, Ptr("redis config options is nil"), <<"nil">>, r)
       ELSE IF options.Addr = ""
       THEN Outcome(Nil, Ptr("redis address is required"), <<"nil", "Addr">>, r)
       ELSE IF options.DB <= 0
       THEN Outcome(Nil, Ptr("redis database must be greater than 0"),
                    <<"nil", "Addr", "DB">>, r)
       ELSE Outcome(Ptr([Addr |-> options.Addr, Password |-> options.Password,
                         DB |-> options.DB]),
                    Nil, <<"nil", "Addr", "DB">>, r)

\* NewRedisConfig checking the database index before the address.
NewRedisConfigDBFirst(bs, opts) ==
    LET r == Build(ZeroRedisConfigOptions, bs, opts)
        options == Deref(r.options)
    IN IF r.err # Nil
       THEN Outcome(Nil, r.err, <<>>, r)
       ELSE IF r.options = Nil
       THEN Outcome(Nil, Ptr("redis config options is nil"), <<"nil">>, r)
       ELSE IF options.DB < 0
       THEN Outcome(Nil, Ptr("redis database must be greater than 0"),
                    <<"nil", "DB">>, r)
       ELSE IF options.Addr = ""
       THEN Outcome(Nil, Ptr("redis address is required"), <<"nil", "DB", "Addr">>, r)
       ELSE Outcome(Ptr([Addr |-> options.Addr, Password |-> options.Password,
                         DB |-> options.DB]),
                    Nil, <<"nil", "DB", "Addr">>, r)

NewRedisConfig(bs, opts) ==
    LET r == Build(ZeroRedisConfigOptions, bs, opts)
        options == Deref(r.options)
    IN IF r.err # Nil
       THEN Outcome(Nil, r.err, <<>>, r)
       ELSE IF r.options = Nil
       THEN Outcome(Nil, Ptr("redis config options is nil"), <<"nil">>, r)
       ELSE IF options.Addr = ""
       THEN Outcome(Nil, Ptr("redis address is required"), <<"nil", "Addr">>, r)
       ELSE IF options.DB < 0
       THEN Outcome(Nil, Ptr("redis database must be greater than 0"),
                    <<"nil", "Addr", "DB">>, r)
       ELSE Outcome(Ptr([Addr |-> options.Addr, Password |-> options.Password,
                         DB |-> options.DB]),
                    Nil, <<"nil", "Addr", "DB">>, r)

\* NewMinioConfig copying the secret key into AccessKey and the access key
\* into SecretKey.
NewMinioConfigSwapKeys(bs, opts) ==
    LET r == Build(ZeroMinioOption, bs, opts)
        options == Deref(r.options)
    IN IF r.err # Nil
       THEN Outcome(Nil, r.err, <<>>, r)
       ELSE IF options.Endpoint = ""
       THEN Outcome(Nil, Ptr("minio endpoint is required"), <<"Endpoint">>, r)
       ELSE IF options.AccessKey = ""
       THEN Outcome(Nil, Ptr("minio access key is required"),
                    <<"Endpoint", "AccessKey">>, r)
       ELSE IF options.SecretKey = ""
       THEN Outcome(Nil, Ptr("minio secret key is required"),
                    <<"Endpoint", "AccessKey", "SecretKey">>, r)
       ELSE IF options.BucketName = ""
       THEN Outcome(Nil, Ptr("minio bucket name is required"),
                    <<"Endpoint", "AccessKey", "SecretKey", "BucketName">>, r)
       ELSE Outcome(Ptr([Endpoint |-> options.Endpoint,
                         AccessKey |-> options.SecretKey,
                         SecretKey |-> options.AccessKey,
                         UseSSL |-> options.UseSSL,
                         BucketName |-> options.BucketName,
                         Region |-> options.Region]),
                    Nil, <<"Endpoint", "AccessKey", "SecretKey", "BucketName">>, r)

\* NewMinioConfig checking the secret key before the access key.
NewMinioConfigSecretFirst(bs, opts) ==
    LET r == Build(ZeroMinioOption, bs, opts)
        options == Deref(r.options)
    IN IF r.err # Nil
       THEN Outcome(Nil, r.err, <<>>, r)
       ELSE IF options.Endpoint = ""
       THEN Outcome(Nil, Ptr("minio endpoint is required"), <<"Endpoint">>, r)
       ELSE IF options.SecretKey = ""
       THEN Outcome(Nil, Ptr("minio secret key is required"),
                    <<"Endpoint", "SecretKey">>, r)
       ELSE IF options.AccessKey = ""
       THEN Outcome(Nil, Ptr("minio access key is required"),
                    <<"Endpoint", "SecretKey", "AccessKey">>, r)
       ELSE IF options.BucketName = ""
       THEN Outcome(Nil, Ptr("minio bucket name is required"),
                    <<"Endpoint", "SecretKey", "AccessKey", "BucketName">>, r)
       ELSE Outcome(Ptr([Endpoint |-> options.Endpoint,
                         AccessKey |-> options.AccessKey,
                         SecretKey |-> options.SecretKey,
                         UseSSL |-> options.UseSSL,
                         BucketName |-> options.BucketName,
                         Region |-> options.Region]),
                    Nil, <<"Endpoint", "SecretKey", "AccessKey", "BucketName">>, r)

NewMinioConfig(bs, opts) ==
    LET r == Build(ZeroMinioOption, bs, opts)
        options == Deref(r.options)
    IN IF r.err # Nil
       THEN Outcome(Nil, r.err, <<>>, r)
       ELSE IF options.Endpoint = ""
       THEN Outcome(Nil, Ptr("minio endpoint is required"), <<"Endpoint">>, r)
       ELSE IF options.AccessKey = ""
       THEN Outcome(Nil, Ptr("minio access key is required"),
                    <<"Endpoint", "AccessKey">>, r)
       ELSE IF options.SecretKey = ""
       THEN Outcome(Nil, Ptr("minio secret key is required"),
                    <<"Endpoint", "AccessKey", "SecretKey">>, r)
       ELSE IF options.BucketName = ""
       THEN Outcome(Nil, Ptr("minio bucket name is required"),
                    <<"Endpoint", "AccessKey", "SecretKey", "BucketName">>, r)
       ELSE Outcome(Ptr([Endpoint |-> options.Endpoint,
                         AccessKey |-> options.AccessKey,
                         SecretKey |-> options.SecretKey,
                         UseSSL |-> options.UseSSL,
                         BucketName |-> options.BucketName,
                         Region |-> options.Region]),
                    Nil, <<"Endpoint", "AccessKey", "SecretKey", "BucketName">>, r)

\* NewFileBucketConfig returning the config together with the error.
NewFileBucketConfigBoth(bs, opts) ==
    LET r == Build(ZeroFileBucketOption, bs, opts)
        options == Deref(r.options)
    IN IF r.err # Nil
       THEN Outcome(Nil, r.err, <<>>, r)
       ELSE IF options.BasePath = ""
       THEN Outcome(Ptr([BasePath |-> options.BasePath]),
                    Ptr("file bucket base path is required"), <<"BasePath">>, r)
       ELSE Outcome(Ptr([BasePath |-> options.BasePath]), Nil, <<"BasePath">>, r)

NewFileBucketConfig(bs, opts) ==
    LET r == Build(ZeroFileBucketOption, bs, opts)
        options == Deref(r.options)
    IN IF r.err # Nil
       THEN Outcome(Nil, r.err, <<>>, r)
       ELSE IF options.BasePath = ""
       THEN Outcome(Nil, Ptr("file bucket base path is required"), <<"BasePath">>, r)
       ELSE Outcome(Ptr([BasePath |-> options.BasePath]), Nil, <<"BasePath">>, r)

\* ----------------------------------------------------------------- actions
NoTrace ==
    [args |-> <<>>, before |-> <<>>, options |-> Nil, invoked |-> <<>>,
     rules |-> <<>>]

Returned(op, b) == [op |-> op, builder |-> b, cfg |-> Nil, err |-> Nil]

Init ==
    /\ builders = <<>>
    /\ calls = <<>>
    /\ ret = Returned("none", Nil)
    /\ trace = NoTrace
    /\ prev = Nil

Ids == 1..Len(builders)

AllOfKind(kind) == \A b \in Ids : builders[b].kind = kind

RECURSIVE TotalOpts(_)
TotalOpts(bs) == IF bs = <<>> THEN 0 ELSE Len(Head(bs).Opts) + TotalOpts(Tail(bs))

\* A run exercises one family of builders; a storage run has one builder.
CanCreate(kind) ==
    /\ AllOfKind(kind)
    /\ IF kind = "minio"
       THEN builders = <<>>
       ELSE Len(builders) + TotalOpts(builders) < MaxCalls

CanAppend(b, kind) ==
    /\ builders[b].kind = kind
    /\ IF kind = "minio"
       THEN TotalOpts(builders) < MaxMinioOpts
       ELSE Len(builders) + TotalOpts(builders) < MaxCalls

Create(op, builder) ==
    /\ CanCreate(builder.kind)
    /\ builders' = Append(builders, builder)
    /\ calls' = Append(calls, <<>>)
    /\ ret' = Returned(op, Ptr(Len(builders) + 1))
    /\ trace' = NoTrace
    /\ prev' = Nil

\* A setter mutates its receiver and returns it.
Setter(op, b, arg, builder) ==
    /\ builders' = [builders EXCEPT ![b] = builder]
    /\ calls' = [calls EXCEPT ![b] = Append(@, Closure(op, arg))]
    /\ ret' = Returned(op, Ptr(b))
    /\ trace' = NoTrace
    /\ prev' = Nil

CreateRedisBuilder == Create("NewRedisConfigOptionsBuilder", NewRedisConfigOptionsBuilder)
CreateMinioBuilder == Create("NewMinioOption", NewMinioOption)
CreateFileBuilder == Create("NewFileBucketOption", NewFileBucketOption)

CallSetAddr ==
    \E b \in Ids, v \in AddrValues :
        CanAppend(b, "redis") /\ Setter("SetAddr", b, v, SetAddr(builders[b], v))
CallSetPassword ==
    \E b \in Ids, v \in PasswordValues :
        CanAppend(b, "redis") /\ Setter("SetPassword", b, v, SetPassword(builders[b], v))
CallSetDB ==
    \E b \in Ids, v \in DBValues :
        CanAppend(b, "redis") /\ Setter("SetDB", b, v, SetDB(builders[b], v))
CallSetEndpoint ==
    \E b \in Ids, v \in EndpointValues :
        CanAppend(b, "minio") /\ Setter("SetEndpoint", b, v, SetEndpoint(builders[b], v))
CallSetAccessKey ==
    \E b \in Ids, v \in AccessKeyValues :
        CanAppend(b, "minio") /\ Setter("SetAccessKey", b, v, SetAccessKey(builders[b], v))
CallSetSecretKey ==
    \E b \in Ids, v \in SecretKeyValues :
        CanAppend(b, "minio") /\ Setter("SetSecretKey", b, v, SetSecretKey(builders[b], v))
CallSetUseSSL ==
    \E b \in Ids, v \in UseSSLValues :
        CanAppend(b, "minio") /\ Setter("SetUseSSL", b, v, SetUseSSL(builders[b], v))
CallSetBucketName ==
    \E b \in Ids, v \in BucketNameValues :
        CanAppend(b, "minio") /\ Setter("SetBucketName", b, v, SetBucketName(builders[b], v))
CallSetRegion ==
    \E b \in Ids, v \in RegionValues :
        CanAppend(b, "minio") /\ Setter("SetRegion", b, v, SetRegion(builders[b], v))
CallSetBasePath ==
    \E b \in Ids, v \in BasePathValues :
        CanAppend(b, "file") /\ Setter("SetBasePath", b, v, SetBasePath(builders[b], v))
CallAppendFailing ==
    \E b \in Ids, e \in MutatorErrors :
        /\ CanAppend(b, builders[b].kind)
        /\ Setter("fail", b, e, AppendFailing(builders[b], e))

\* The argument lists a constructor of the given family can be called with:
\* its parameters are typed by the family's options struct.
ArgLists(kind) ==
    IF AllOfKind(kind) THEN UNION {[1..n -> Ids] : n \in 0..MaxArgs} ELSE {}

Construct(op, opts, out) ==
    /\ builders' = out.builders
    /\ UNCHANGED calls
    /\ ret' = [op |-> op, builder |-> Nil, cfg |-> out.cfg, err |-> out.err]
    /\ trace' = [args |-> opts, before |-> builders, options |-> out.options,
                 invoked |-> out.invoked, rules |-> out.rules]
    /\ prev' = Nil

\* The setter calls behind the supplied builders: all calls made on the
\* first supplied builder in call order, then all made on the second, and
\* so on.
RECURSIVE Concat(_, _, _)
Concat(cs, opts, k) ==
    IF k > Len(opts) THEN <<>> ELSE cs[opts[k]] \o Concat(cs, opts, k + 1)

\* The same constructor called a second time, right after the first, with
\* builders behind which are the same setter calls; the caller keeps what
\* the first call returned.
ConstructAgain(op, opts, out) ==
    /\ ret.op = op
    /\ Concat(calls, opts, 1) = Concat(calls, trace.args, 1)
    /\ builders' = out.builders
    /\ UNCHANGED calls
    /\ ret' = [op |-> op, builder |-> Nil, cfg |-> out.cfg, err |-> out.err]
    /\ trace' = [args |-> opts, before |-> builders, options |-> out.options,
                 invoked |-> out.invoked, rules |-> out.rules]
    /\ prev' = Ptr([cfg |-> ret.cfg, err |-> ret.err])

CallNewRedisConfig ==
    \E opts \in ArgLists("redis") :
        Construct("NewRedisConfig", opts, NewRedisConfig(builders, opts))
CallNewMinioConfig ==
    \E opts \in ArgLists("minio") :
        Construct("NewMinioConfig", opts, NewMinioConfig(builders, opts))
CallNewFileBucketConfig ==
    \E opts \in ArgLists("file") :
        Construct("NewFileBucketConfig", opts, NewFileBucketConfig(builders, opts))

Next ==
    \/ CreateRedisBuilder
    \/ CreateMinioBuilder
    \/ CreateFileBuilder
    \/ CallSetAddr
    \/ CallSetPassword
    \/ CallSetDB
    \/ CallSetEndpoint
    \/ CallSetAccessKey
    \/ CallSetSecretKey
    \/ CallSetUseSSL
    \/ CallSetBucketName
    \/ CallSetRegion
    \/ CallSetBasePath
    \/ CallAppendFailing
    \/ CallNewRedisConfig
    \/ CallNewMinioConfig
    \/ CallNewFileBucketConfig

Spec == Init /\ [][Next]_vars

AgainNewRedisConfig ==
    \E opts \in ArgLists("redis") :
        ConstructAgain("NewRedisConfig", opts, NewRedisConfig(builders, opts))
AgainNewMinioConfig ==
    \E opts \in ArgLists("minio") :
        ConstructAgain("NewMinioConfig", opts, NewMinioConfig(builders, opts))
AgainNewFileBucketConfig ==
    \E opts \in ArgLists("file") :
        ConstructAgain("NewFileBucketConfig", opts, NewFileBucketConfig(builders, opts))

NextTwice ==
    \/ Next
    \/ AgainNewRedisConfig
    \/ AgainNewMinioConfig
    \/ AgainNewFileBucketConfig

\* The runs of Spec and those in which a caller compares two calls.
SpecTwice == Init /\ [][NextTwice]_vars

\* ------------------------------------------- reading the last constructor call
Constructors == {"NewRedisConfig", "NewMinioConfig", "NewFileBucketConfig"}

Called == ret.op \in Constructors

Fns == Concat(calls, trace.args, 1)

ErrorFree == \A i \in 1..Len(Fns) : Fns[i].fn # "fail"

\* The argument of the last call of setter fn in that order; zero if none.
LastSet(fn, zero) ==
    LET at == {i \in 1..Len(Fns) : Fns[i].fn = fn}
    IN IF at = {} THEN zero ELSE Fns[CHOOSE i \in at : \A j \in at : j <= i].arg

\* The options the setter calls describe, field by field.
Expected ==
    CASE ret.op = "NewRedisConfig" ->
           [Addr |-> LastSet("SetAddr", ""), Password |-> LastSet("SetPassword", ""),
            DB |-> LastSet("SetDB", 0)]
      [] ret.op = "NewMinioConfig" ->
           [Endpoint |-> LastSet("SetEndpoint", ""),
            AccessKey |-> LastSet("SetAccessKey", ""),
            SecretKey |-> LastSet("SetSecretKey", ""),
            UseSSL |-> LastSet("SetUseSSL", FALSE),
            BucketName |-> LastSet("SetBucketName", ""),
            Region |-> LastSet("SetRegion", "")]
      [] ret.op = "NewFileBucketConfig" -> [BasePath |-> LastSet("SetBasePath", "")]

\* The options Build handed to the validation rules, when it returned any.
Built == trace.options # Nil
Options == Deref(trace.options)
Succeeded == Called /\ ret.cfg # Nil
Config == Deref(ret.cfg)

\* ------------------------------------------------------------------ claims

\* C1: a Config a constructor returns never has a required field missing or
\* out of range: a MinioConfig has non-empty Endpoint, AccessKey, SecretKey
\* and BucketName, a RedisConfig non-empty Addr and DB >= 0, a
\* FileBucketConfig non-empty BasePath.
C1_ConfigNeverInvalid ==
    Succeeded =>
        CASE ret.op = "NewMinioConfig" ->
               /\ Config.Endpoint # ""
               /\ Config.AccessKey # ""
               /\ Config.SecretKey # ""
               /\ Config.BucketName # ""
          [] ret.op = "NewRedisConfig" -> Config.Addr # "" /\ Config.DB >= 0
          [] ret.op = "NewFileBucketConfig" -> Config.BasePath # ""

\* A RedisConfig returned although an earlier setter call had given the
\* empty address.
C1_Witness ==
    /\ Succeeded
    /\ ret.op = "NewRedisConfig"
    /\ \E i \in 1..Len(Fns) : Fns[i] = Closure("SetAddr", "")

\* C2: every constructor call returns exactly one of a Config and an error.
C2_ConfigXorError == Called => ((ret.cfg = Nil) # (ret.err = Nil))

\* A validation failure: the error and no Config.
C2_Witness ==
    /\ ret.op = "NewFileBucketConfig"
    /\ ret.err = Ptr("file bucket base path is required")
    /\ ret.cfg = Nil
    /\ Built

\* C3: last write wins. With the closures ordered as all of the first
\* supplied builder in call order, then all of the second, and so on, every
\* field of the built options, and of the Config on success, has the value
\* given by the last setter call for that field in that order (the zero
\* value if there is none).
C3_LastWriteWins ==
    (Called /\ Built) =>
        /\ Options = Expected
        /\ Succeeded => Config = Expected

\* Two builders supplied in the reverse of their creation order, both
\* setting the address; the one supplied last decides.
C3_Witness ==
    /\ Succeeded
    /\ trace.args = <<2, 1>>
    /\ calls[2] = <<Closure("SetAddr", "")>>
    /\ calls[1] = <<Closure("SetAddr", "localhost:6379")>>
    /\ Config.Addr = "localhost:6379"

\* The closures of the supplied builders as (argument position, index in
\* that builder's list), in the order Build is to run them.
RECURSIVE Refs(_)
Refs(k) ==
    IF k > Len(trace.args) THEN <<>>
    ELSE [i \in 1..Len(trace.before[trace.args[k]].Opts) |-> <<k, i>>] \o Refs(k + 1)

\* The position of the first error-signalling closure in that order.
FirstFail ==
    CHOOSE k \in 1..Len(Fns) :
        /\ Fns[k].fn = "fail"
        /\ \A j \in 1..(k - 1) : Fns[j].fn # "fail"

\* C4: if the k-th closure in the concatenated order signals an error, the
\* closures invoked are exactly the first k, the constructor returns that
\* error unchanged with a nil Config, no validation rule runs and the
\* partially mutated options are not returned.
C4_ErrorStopsBuild ==
    (Called /\ ~ErrorFree) =>
        /\ trace.invoked = SubSeq(Refs(1), 1, FirstFail)
        /\ ret.err = Ptr(Fns[FirstFail].arg)
        /\ ret.cfg = Nil
        /\ trace.rules = <<>>
        /\ trace.options = Nil

\* The only closure of the first supplied builder fails and a second
\* builder with a closure follows it.
C4_Witness ==
    /\ Called
    /\ trace.args = <<1, 2>>
    /\ Len(calls[1]) = 1
    /\ calls[1][1].fn = "fail"
    /\ calls[2] # <<>>
    /\ Len(trace.invoked) = 1

\* C5: over error-free closures NewRedisConfig succeeds exactly when the
\* final Addr is non-empty and the final DB is at least 0; an empty Addr is
\* rejected with the address-required error whatever DB is, and Password
\* has no part in it.
C5_RedisAcceptance ==
    (ret.op = "NewRedisConfig" /\ ErrorFree) =>
        LET addr == LastSet("SetAddr", "")
            db == LastSet("SetDB", 0)
        IN /\ (ret.cfg # Nil) <=> (addr # "" /\ db >= 0)
           /\ addr = "" => ret.err = Ptr("redis address is required")

\* Accepted with SetDB never called (DB = 0) and a password set.
C5_Witness ==
    /\ ret.op = "NewRedisConfig"
    /\ Succeeded
    /\ \A i \in 1..Len(Fns) : Fns[i].fn # "SetDB"
    /\ Config.DB = 0
    /\ Config.Password = "secret"

\* C6: a returned Config equals the built options field by field; a
\* MinioConfig has UseSSL = FALSE and Region = "" when those setters were
\* never called, and NewMinioConfig succeeds whenever the four required
\* fields are non-empty, whatever UseSSL and Region are.
C6_ConfigCarriesOptions ==
    /\ Succeeded => (Built /\ Config = Options)
    /\ (Succeeded /\ ret.op = "NewMinioConfig") =>
           /\ (\A i \in 1..Len(Fns) : Fns[i].fn # "SetUseSSL") => Config.UseSSL = FALSE
           /\ (\A i \in 1..Len(Fns) : Fns[i].fn # "SetRegion") => Config.Region = ""
    /\ (ret.op = "NewMinioConfig" /\ Built) =>
           ((/\ Options.Endpoint # ""
             /\ Options.AccessKey # ""
             /\ Options.SecretKey # ""
             /\ Options.BucketName # "") => Succeeded)

\* A MinioConfig built from the four required setters alone.
C6_Witness ==
    /\ ret.op = "NewMinioConfig"
    /\ Succeeded
    /\ Len(Fns) = 4
    /\ Config = [Endpoint |-> "https://x", AccessKey |-> "a", SecretKey |-> "b",
                 UseSSL |-> FALSE, BucketName |-> "bkt", Region |-> ""]

\* C7 as amended: with the options built and an empty access key,
\* NewMinioConfig fails; with the access-key-required error when the
\* endpoint is non-empty, with the endpoint-required error when it is empty.
C7_AccessKeyRequired ==
    (ret.op = "NewMinioConfig" /\ Built /\ Options.AccessKey = "") =>
        /\ ret.cfg = Nil
        /\ ret.err = IF Options.Endpoint = ""
                     THEN Ptr("minio endpoint is required")
                     ELSE Ptr("minio access key is required")

\* C7 as claimed: an empty access key yields the access-key-required error
\* regardless of the other fields.
C7_Original ==
    (ret.op = "NewMinioConfig" /\ Built /\ Options.AccessKey = "") =>
        ret.err = Ptr("minio access key is required")

\* Endpoint and region set, access key, secret key and bucket name missing.
C7_Witness ==
    /\ ret.op = "NewMinioConfig"
    /\ Built
    /\ Options.Endpoint # ""
    /\ Options.Region # ""
    /\ Options.AccessKey = ""
    /\ Options.SecretKey = ""
    /\ Options.BucketName = ""
    /\ ret.err = Ptr("minio access key is required")

\* The validation checklists, in order, and what each rule rejects.
RulesOf(op) ==
    CASE op = "NewRedisConfig" -> <<"nil", "Addr", "DB">>
      [] op = "NewMinioConfig" -> <<"Endpoint", "AccessKey", "SecretKey", "BucketName">>
      [] op = "NewFileBucketConfig" -> <<"BasePath">>

Violates(rule, p) ==
    CASE rule = "nil" -> p = Nil
      [] rule = "DB" -> Deref(p).DB < 0
      [] OTHER -> Deref(p)[rule] = ""

Message(op, rule) ==
    CASE op = "NewRedisConfig" /\ rule = "nil" -> "redis config options is nil"
      [] op = "NewRedisConfig" /\ rule = "Addr" -> "redis address is required"
      [] op = "NewRedisConfig" /\ rule = "DB" -> "redis database must be greater than 0"
      [] op = "NewMinioConfig" /\ rule = "Endpoint" -> "minio endpoint is required"
      [] op = "NewMinioConfig" /\ rule = "AccessKey" -> "minio access key is required"
      [] op = "NewMinioConfig" /\ rule = "SecretKey" -> "minio secret key is required"
      [] op = "NewMinioConfig" /\ rule = "BucketName" -> "minio bucket name is required"
      [] op = "NewFileBucketConfig" /\ rule = "BasePath" ->
           "file bucket base path is required"

\* C8: when the built options violate several rules, the constructor
\* returns the error of the first violated rule of its checklist and
\* evaluates no rule after it; each rule has its own message.
C8_FirstViolatedRuleWins ==
    (Called /\ Built) =>
        LET order == RulesOf(ret.op)
            bad == {i \in 1..Len(order) : Violates(order[i], trace.options)}
            first == CHOOSE i \in bad : \A j \in bad : i <= j
        IN /\ IF bad = {}
              THEN ret.err = Nil /\ trace.rules = order
              ELSE /\ ret.err = Ptr(Message(ret.op, order[first]))
                   /\ trace.rules = SubSeq(order, 1, first)
           /\ \A i, j \in 1..Len(order) :
                  Message(ret.op, order[i]) = Message(ret.op, order[j]) => i = j

\* Empty Addr together with DB = -1: the address-required error, the
\* database rule not evaluated.
C8_Witness ==
    /\ ret.op = "NewRedisConfig"
    /\ Built
    /\ Options.Addr = ""
    /\ Options.DB = -1
    /\ ret.err = Ptr("redis address is required")
    /\ trace.rules = <<"nil", "Addr">>

\* How often the call invoked closure i of builder b, and how often b
\* occurs in the argument list.
Invocations(b, i) ==
    Cardinality({n \in 1..Len(trace.invoked) :
                    /\ trace.args[trace.invoked[n][1]] = b
                    /\ trace.invoked[n][2] = i})

Occurrences(b) == Cardinality({k \in 1..Len(trace.args) : trace.args[k] = b})

\* C9 as amended: in a call whose closures signal no error, every closure
\* of a builder is invoked once for each occurrence of that builder in the
\* argument list (not at all when the builder is not supplied).
C9_OncePerOccurrence ==
    (Called /\ ErrorFree) =>
        \A b \in 1..Len(trace.before) :
            \A i \in 1..Len(trace.before[b].Opts) :
                Invocations(b, i) = Occurrences(b)

\* C9 as claimed: every closure of a supplied builder is invoked exactly
\* once, also when the builder is supplied more than once.
C9_Original ==
    (Called /\ ErrorFree) =>
        \A k \in 1..Len(trace.args) :
            \A i \in 1..Len(trace.before[trace.args[k]].Opts) :
                Invocations(trace.args[k], i) = 1

\* The same builder supplied twice: each of its closures runs twice.
C9_Witness ==
    /\ Called
    /\ ErrorFree
    /\ trace.args = <<1, 1>>
    /\ trace.before[1].Opts # <<>>
    /\ Len(trace.invoked) = 2 * Len(trace.before[1].Opts)

\* C10: a constructor call, successful or failing, leaves every builder's
\* accumulated closures as they were: same length, same closures, same
\* order.
C10_BuildersUntouched == Called => builders = trace.before

\* A failing call over a builder that still holds its closures.
C10_Witness ==
    /\ Called
    /\ ret.err # Nil
    /\ trace.args # <<>>
    /\ builders[trace.args[1]].Opts # <<>>
    /\ builders[trace.args[1]].Opts = calls[trace.args[1]]

\* C11: a constructor called twice over the same setter calls (the same
\* builder again with no setter call in between, or other builders with the
\* same calls made on them) returns the same both times: two Configs equal
\* field by field, or the same error.
C11_SameOutcomeTwice ==
    prev # Nil => (Deref(prev).cfg = ret.cfg /\ Deref(prev).err = ret.err)

\* A second successful call over a builder with setter calls behind it.
C11_Witness ==
    /\ prev # Nil
    /\ Succeeded
    /\ Deref(prev).cfg # Nil
    /\ trace.args # <<>>
    /\ Fns # <<>>

\* The zero-valued options of each constructor and the error of its first
\* required-field rule.
ZeroOf(op) ==
    CASE op = "NewRedisConfig" -> ZeroRedisConfigOptions
      [] op = "NewMinioConfig" -> ZeroMinioOption
      [] op = "NewFileBucketConfig" -> ZeroFileBucketOption

FirstRequired(op) ==
    CASE op = "NewRedisConfig" -> "redis address is required"
      [] op = "NewMinioConfig" -> "minio endpoint is required"
      [] op = "NewFileBucketConfig" -> "file bucket base path is required"

\* C12: with no builder supplied, or only builders on which no setter was
\* called, Build returns zero-valued options and no error, and the
\* constructor fails at its first required-field rule: never with an error
\* from Build, never with the nil-options error.
C12_EmptyInputIsZero ==
    (Called /\ Fns = <<>>) =>
        /\ Built
        /\ Options = ZeroOf(ret.op)
        /\ trace.invoked = <<>>
        /\ ret.cfg = Nil
        /\ ret.err = Ptr(FirstRequired(ret.op))

\* Two builders supplied, no setter called on either.
C12_Witness ==
    /\ Called
    /\ Len(trace.args) = 2
    /\ trace.args[1] # trace.args[2]
    /\ Fns = <<>>
    /\ ret.err = Ptr("redis address is required")

SetterOps ==
    {"SetAddr", "SetPassword", "SetDB", "SetEndpoint", "SetAccessKey",
     "SetSecretKey", "SetUseSSL", "SetBucketName", "SetRegion", "SetBasePath"}

\* C13: after n setter calls on a freshly created builder List returns
\* exactly the n closures of those calls, in call order (none for a fresh
\* builder), and a setter returns the builder it was called on, whose list
\* now ends with that call's closure.
C13_ListIsCallHistory ==
    /\ \A b \in Ids : List(builders[b]).list = calls[b]
    /\ ret.op \in SetterOps =>
           \E b \in Ids :
               /\ ret.builder = Ptr(b)
               /\ calls[b] # <<>>
               /\ calls[b][Len(calls[b])].fn = ret.op
               /\ Len(List(builders[b]).list) = Len(calls[b])
    /\ ret.op \in {"NewRedisConfigOptionsBuilder", "NewMinioOption",
                   "NewFileBucketOption"} =>
           /\ ret.builder = Ptr(Len(builders))
           /\ List(builders[Len(builders)]).list = <<>>

\* Three setter calls on one builder, the first and the last on the same
\* field, listed in call order.
C13_Witness ==
    /\ ret.op = "SetAddr"
    /\ ret.builder = Ptr(1)
    /\ List(builders[1]).list =
           <<Closure("SetAddr", ""), Closure("SetDB", 1),
             Closure("SetAddr", "localhost:6379")>>

====
